---- MODULE Spec2Model ----
(***************************************************************************)
(* Model of the resumable batch driver multiproceso_litterbox.py:          *)
(* the state files ok_projects.txt / failed_projects.txt /                 *)
(* last_project_processed.txt, the CSV loader, the two dispatch            *)
(* strategies of main() with their retry loops, the temporary project      *)
(* files, the CSV consolidation and the exit status; and of the title      *)
(* fetcher get_multi_filenames.py.                                         *)
(* Strings are sequences of one-character strings, so that str.strip() is  *)
(* computed and not assumed.                                               *)
(***************************************************************************)
EXTENDS Integers, Sequences, FiniteSets, TLC

\* ---------------------------------------------------------------- bounds
MaxRows == 2        \* rows of the input CSV
MaxRetries == 1     \* largest --retries value tried
MaxWorkers == 2     \* largest --max-workers value tried
MaxRuns == 2        \* consecutive runs of the program over the same state dir
MaxItems == 5       \* longest list given to chunk_round_robin on its own
MaxK == 3           \* largest k given to chunk_round_robin on its own
MaxLoadRows == 3    \* rows of a CSV given to load_jobs_from_csv on its own
MaxIds == 3         \* title fetcher: rows of the input CSV
MaxTitleRuns == 3   \* title fetcher: consecutive runs over the same output file
MaxConsolidations == 2  \* consecutive consolidate_csvs calls over the same directory

\* ------------------------------------------------------------ characters
SP == " "
QT == "\""          \* the double-quote character

IsSpace(c) == c = SP

\* code point order of the characters used, for sorted()
CharCode(c) == CASE c = SP -> 32
                 [] c = QT -> 34
                 [] c = "." -> 46
                 [] c = "0" -> 48
                 [] c = "1" -> 49
                 [] c = "_" -> 95
                 [] c = "a" -> 97
                 [] c = "b" -> 98
                 [] c = "c" -> 99
                 [] c = "e" -> 101
                 [] c = "i" -> 105
                 [] c = "k" -> 107
                 [] c = "l" -> 108
                 [] c = "o" -> 111
                 [] c = "r" -> 114
                 [] c = "s" -> 115
                 [] c = "t" -> 116
                 [] c = "u" -> 117
                 [] c = "v" -> 118
                 [] c = "w" -> 119
                 [] c = "x" -> 120
                 [] c = "y" -> 121
                 [] OTHER -> 122

Max(x, y) == IF x >= y THEN x ELSE y

\* str.strip(): drop leading and trailing whitespace
RECURSIVE LStrip(_)
LStrip(s) == IF s /= <<>> /\ IsSpace(Head(s)) THEN LStrip(Tail(s)) ELSE s

RECURSIVE RStrip(_)
RStrip(s) == IF s /= <<>> /\ IsSpace(s[Len(s)])
               THEN RStrip(SubSeq(s, 1, Len(s) - 1)) ELSE s

Strip(s) == RStrip(LStrip(s))

\* str.strip('"'): drop leading and trailing double quotes
RECURSIVE LStripQ(_)
LStripQ(s) == IF s /= <<>> /\ Head(s) = QT THEN LStripQ(Tail(s)) ELSE s

RECURSIVE RStripQ(_)
RStripQ(s) == IF s /= <<>> /\ s[Len(s)] = QT
                THEN RStripQ(SubSeq(s, 1, Len(s) - 1)) ELSE s

StripQ(s) == RStripQ(LStripQ(s))

\* lexicographic order of two strings, as Python compares str
RECURSIVE StrLess(_, _)
StrLess(s, t) ==
  IF t = <<>> THEN FALSE
  ELSE IF s = <<>> THEN TRUE
  ELSE IF CharCode(Head(s)) /= CharCode(Head(t))
         THEN CharCode(Head(s)) < CharCode(Head(t))
  ELSE StrLess(Tail(s), Tail(t))

\* sorted(list(S)) for a set of strings
RECURSIVE Sorted(_)
Sorted(S) ==
  IF S = {} THEN <<>>
  ELSE LET m == CHOOSE x \in S : \A y \in S \ {x} : StrLess(x, y)
       IN  <<m>> \o Sorted(S \ {m})

Range(s) == {s[i] : i \in 1..Len(s)}

\* ------------------------------------------------------------ state files
\* A state file: absent, or a list of lines (each written as str + "\n").
NoFile == [exists |-> FALSE, lines |-> <<>>]
EmptyFile == [exists |-> TRUE, lines |-> <<>>]

\* open("a") + write(project + "\n")
AppendLine(file, project) ==
  [exists |-> TRUE, lines |-> Append(file.lines, project)]

RECURSIVE AppendAll(_, _)
AppendAll(file, projects) ==
  IF projects = <<>> THEN file
  ELSE AppendAll(AppendLine(file, Head(projects)), Tail(projects))

append_ok(file, project) == AppendLine(file, project)

append_failed(file, project) == AppendLine(file, project)

\* read_list: the set of stripped non-blank lines, empty when the file is absent
read_list(file) ==
  IF ~file.exists THEN {}
  ELSE {Strip(file.lines[i]) : i \in {j \in 1..Len(file.lines) : Strip(file.lines[j]) /= <<>>}}

\* write_last_processed: write_text overwrites the whole file
write_last_processed(project) == [exists |-> TRUE, lines |-> <<project>>]

\* -------------------------------------------------------------- CSV loader
\* "project" / "proyecto" as strings
PROJECT == <<"p", "r", "o", "j", "e", "c", "t">>
PROYECTO == <<"p", "r", "o", "y", "e", "c", "t", "o">>

\* pat in s (substring test)
Contains(s, pat) ==
  \E i \in 1..(Len(s) + 1) :
     /\ i + Len(pat) - 1 <= Len(s)
     /\ SubSeq(s, i, i + Len(pat) - 1) = pat

\* str.lower() on the characters used: upper case letters P and R only
Lower(s) == [i \in 1..Len(s) |-> CASE s[i] = "P" -> "p" [] s[i] = "R" -> "r" [] OTHER -> s[i]]

IsMarker(c) == Contains(c, PROJECT) \/ Contains(c, PROYECTO)

\* add_job: the identity kept for a raw cell, <<>> when the cell is dropped
add_job(raw) == StripQ(Strip(raw))

RECURSIVE ReadColumn(_, _)
ReadColumn(rows, idx) ==
  IF rows = <<>> THEN <<>>
  ELSE LET row == Head(rows)
           rest == ReadColumn(Tail(rows), idx)
       IN  IF row = <<>> THEN rest
           ELSE IF add_job(row[idx]) = <<>> THEN rest
           ELSE <<add_job(row[idx])>> \o rest

\* load_jobs_from_csv: rows is the list of rows csv.reader yields
load_jobs_from_csv(rows) ==
  IF rows = <<>> THEN <<>>
  ELSE LET first_row == Head(rows)
           normalized == [i \in 1..Len(first_row) |-> Lower(Strip(first_row[i]))]
           header_like == \E i \in 1..Len(normalized) : IsMarker(normalized[i])
       IN  IF header_like
             THEN LET idx == CHOOSE i \in 1..Len(normalized) :
                               /\ IsMarker(normalized[i])
                               /\ \A j \in 1..(i - 1) : ~IsMarker(normalized[j])
                  IN  ReadColumn(Tail(rows), idx)
             ELSE (IF first_row = <<>> \/ add_job(first_row[1]) = <<>>
                     THEN <<>> ELSE <<add_job(first_row[1])>>)
                  \o ReadColumn(Tail(rows), 1)

\* load_jobs_from_csv, lines 171-178: with a header, add_job(row[idx]) raises
\* IndexError on a non-empty row that has no cell at idx
LoadRaises(rows) ==
  /\ rows /= <<>>
  /\ LET first_row == Head(rows)
         normalized == [i \in 1..Len(first_row) |-> Lower(Strip(first_row[i]))]
     IN  \E idx \in 1..Len(normalized) :
           /\ IsMarker(normalized[idx])
           /\ \A j \in 1..(idx - 1) : ~IsMarker(normalized[j])
           /\ \E r \in 2..Len(rows) : rows[r] /= <<>> /\ Len(rows[r]) < idx

\* ------------------------------------------------------------- partitioner
\* faulty variant of Bucket: the bucket index is taken one position late
RECURSIVE BucketShifted(_, _, _, _)
BucketShifted(items, m, b, from) ==
  IF from >= Len(items) THEN <<>>
  ELSE (IF (from + 1) % m = b THEN <<items[from + 1]>> ELSE <<>>)
       \o BucketShifted(items, m, b, from + 1)

RECURSIVE Bucket(_, _, _, _)
\* the items at 0-based positions i >= from with i % m = b, in input order
Bucket(items, m, b, from) ==
  IF from >= Len(items) THEN <<>>
  ELSE (IF from % m = b THEN <<items[from + 1]>> ELSE <<>>)
       \o Bucket(items, m, b, from + 1)

\* chunk_round_robin: bucket index w models worker_idx w - 1
chunk_round_robin(items, k) ==
  [w \in 1..Max(1, k) |-> Bucket(items, Max(1, k), w - 1, 0)]

\* ------------------------------------------------------------------ tokens
\* str.replace(pat, rep) for a non-empty pat
RECURSIVE Replace(_, _, _)
Replace(s, pat, rep) ==
  IF Len(s) < Len(pat) THEN s
  ELSE IF SubSeq(s, 1, Len(pat)) = pat
         THEN rep \o Replace(SubSeq(s, Len(pat) + 1, Len(s)), pat, rep)
  ELSE <<Head(s)>> \o Replace(Tail(s), pat, rep)

\* the part of s after the last occurrence of the character c (s when there is none)
RECURSIVE AfterLast(_, _)
AfterLast(s, c) ==
  IF \E i \in 1..Len(s) : s[i] = c THEN AfterLast(Tail(s), c) ELSE s

\* str.strip(".-_")
RECURSIVE LStripPunct(_)
LStripPunct(s) ==
  IF s /= <<>> /\ Head(s) \in {".", "-", "_"} THEN LStripPunct(Tail(s)) ELSE s

RECURSIVE RStripPunct(_)
RStripPunct(s) ==
  IF s /= <<>> /\ s[Len(s)] \in {".", "-", "_"}
    THEN RStripPunct(SubSeq(s, 1, Len(s) - 1)) ELSE s

DotTxt == <<".", "t", "x", "t">>
DotCsv == <<".", "c", "s", "v">>
DotList == <<".", "l", "i", "s", "t">>

\* Path(project).name: the last component of the path
PathName(project) == AfterLast(project, "/")

derive_token_from_project(project) ==
  LET name == PathName(project)
      last == AfterLast(name, "_")
      dashed == Replace(last, <<SP>>, <<"-">>)
      bare == Replace(Replace(Replace(dashed, DotTxt, <<>>), DotCsv, <<>>), DotList, <<>>)
      token == RStripPunct(LStripPunct(bare))
  IN  IF token /= <<>> THEN token ELSE name

\* run_litterbox, lines 195-197: project_<token>.txt is written (created or
\* overwritten)
WriteListFile(dir, project) == dir \cup {derive_token_from_project(project)}

\* run_litterbox, lines 206-213 and 228-234: project_<token>.txt is unlinked if
\* it exists
UnlinkListFile(dir, project) == dir \ {derive_token_from_project(project)}

\* process_one_project, line 283: litter_results_<token>.csv, named here by its token
OutputCsv(project) == derive_token_from_project(project)

\* ------------------------------------------------------------------ inputs
A == <<"a">>
B == <<"b">>
\* the cell """ a""": csv.reader yields it with its literal quotes, and add_job
\* keeps the identity " a"
QuotedPadA == <<QT, SP, "a", QT>>
Blank == <<SP>>

\* single-column rows without header, at most MaxRows of them
Rows == {<<A>>, <<B>>, <<Blank>>}

RECURSIVE SeqsUpTo(_, _)
SeqsUpTo(S, n) ==
  IF n = 0 THEN {<<>>}
  ELSE LET shorter == SeqsUpTo(S, n - 1)
       IN  shorter \cup {Append(s, x) : s \in {t \in shorter : Len(t) = n - 1}, x \in S}

CsvInputs == SeqsUpTo(Rows, MaxRows)

\* argparse.Namespace, the fields main() reads
\* --skip-failed is only given together with --auto-resume (its help text)
ArgSets ==
  {a \in [retries : 0..MaxRetries, max_workers : 1..MaxWorkers,
          resume_failed : BOOLEAN, auto_resume : BOOLEAN, skip_failed : BOOLEAN,
          single_csv_per_worker : BOOLEAN] : a.skip_failed => a.auto_resume}

NoArgs ==
  [retries |-> 0, max_workers |-> 1, resume_failed |-> FALSE, auto_resume |-> FALSE,
   skip_failed |-> FALSE, single_csv_per_worker |-> FALSE]

\* ------------------------------------------------------------------- state
VARIABLES
  okFile,            \* ok_projects.txt
  failedFile,        \* failed_projects.txt
  lastFile,          \* last_project_processed.txt
  lastRun,           \* history: the run that wrote lastFile (0: none)
  runNo,             \* number of runs started
  pc,                \* where main() is: idle, loop, batch, done, interrupted
  args,              \* the parsed arguments of the current run
  all_jobs,          \* the projects loaded from the CSV
  ok_set,            \* read_list(ok_projects.txt) at the start of the run
  jobs,              \* the projects selected for this run
  to_run,            \* per-item: the batch of the current attempt
  attempt,
  futures,           \* per-item: status of each submitted task of the batch
  current_failures,
  failures_total,
  remaining_buckets, \* per-worker: the shard of each worker for this attempt
  new_buckets,
  workers,           \* per-worker: the state of each worker_loop call
  exitStatus,        \* return value of main(), meaningful when pc = "done"
  invoked,           \* history: run_litterbox calls of this run, per project
  completed,         \* history: <<project, ok>> of every call that returned
  okAtStart,         \* history: ok_projects.txt when the run started
  failedAtStart,     \* history: failed_projects.txt when the run started
  dispatching,       \* history: TRUE once the run got past job selection
  tmp_dir,           \* the tokens t whose tmp_projects/project_<t>.txt exists
  call,              \* a function called on its own: its name and arguments
  ret,               \* what the calls made so far returned
  output_dir,        \* consolidate_csvs: the files of the output directory
  OUTPUT_CSV,        \* title fetcher: the output file
  titles_pc,         \* title fetcher: where its main() is
  titles_run,        \* title fetcher: number of runs started
  all_ids,           \* title fetcher: the IDs of the input of this run
  remaining,         \* title fetcher: the IDs submitted in this run
  fetch_futures,     \* title fetcher: status of each submitted fetch
  fetched,           \* history: the IDs requested from the API, with the run
  fetch_attempt,     \* _fetch_title_with_retries on its own: its loop variable attempt
  responses          \* history: what requests.get met in each iteration

\* the variables of the batch driver
driver == <<okFile, failedFile, lastFile, lastRun, runNo, pc, args, all_jobs, ok_set, jobs,
            to_run, attempt, futures, current_failures, failures_total, remaining_buckets,
            new_buckets, workers, exitStatus, invoked, completed, okAtStart,
            failedAtStart, dispatching, tmp_dir>>
\* a function called on its own
single == <<call, ret, output_dir>>
\* the variables of the title fetcher
request == <<fetch_attempt, responses>>
titles == <<OUTPUT_CSV, titles_pc, titles_run, all_ids, remaining, fetch_futures, fetched,
            request>>

vars == <<driver, single, titles>>

files == <<okFile, failedFile, lastFile, lastRun>>
history == <<invoked, completed>>
perItem == <<to_run, futures, current_failures>>
perWorker == <<remaining_buckets, new_buckets, workers>>
runConst == <<runNo, args, all_jobs, ok_set, jobs, okAtStart, failedAtStart, dispatching>>

\* nothing is called on its own
NoCall ==
  /\ call = [fn |-> "none"]
  /\ ret = <<>>
  /\ output_dir = <<>>

\* the title fetcher is not run
NoTitles ==
  /\ OUTPUT_CSV = NoFile
  /\ titles_pc = "idle"
  /\ titles_run = 0
  /\ all_ids = <<>>
  /\ remaining = <<>>
  /\ fetch_futures = <<>>
  /\ fetched = {}
  /\ fetch_attempt = 0
  /\ responses = <<>>

\* the batch driver before its first run
DriverInit ==
  /\ okFile = NoFile
  /\ failedFile = NoFile
  /\ lastFile = NoFile
  /\ lastRun = 0
  /\ runNo = 0
  /\ pc = "idle"
  /\ args = NoArgs
  /\ all_jobs = <<>>
  /\ ok_set = {}
  /\ jobs = <<>>
  /\ to_run = <<>>
  /\ attempt = 0
  /\ futures = <<>>
  /\ current_failures = <<>>
  /\ failures_total = <<>>
  /\ remaining_buckets = <<>>
  /\ new_buckets = <<>>
  /\ workers = <<>>
  /\ exitStatus = 0
  /\ invoked = <<>>
  /\ completed = {}
  /\ okAtStart = NoFile
  /\ failedAtStart = NoFile
  /\ dispatching = FALSE
  /\ tmp_dir = {}

Init == DriverInit /\ NoCall /\ NoTitles

\* ----------------------------------------------------- main(): job selection
\* main, line 347: no project in the CSV
NoJobs(loaded) == loaded = <<>>

\* main, lines 357-361: legacy resume with nothing recorded as failed
NothingToResume(a, failed_set) == a.resume_failed /\ failed_set = {}

\* main, lines 357-386: the list of projects to process
SelectJobs(a, loaded, oks, failed_set) ==
  IF a.resume_failed
    THEN Sorted(failed_set \cap Range(loaded))
  ELSE IF a.auto_resume
    THEN Sorted((Range(loaded) \ oks)
                  \ (IF a.skip_failed THEN failed_set ELSE {}))
  ELSE loaded

\* faulty variant of CleanRun: the state is reset before the CSV is found empty
CleanRunBeforeCheck(a, loaded) == ~a.resume_failed /\ ~a.auto_resume

\* main, lines 380-385 are reached: neither resume flag is set and the CSV has projects
CleanRun(a, loaded) ==
  ~NoJobs(loaded) /\ ~a.resume_failed /\ ~a.auto_resume

\* faulty variant of ResetStateFile: touch without the unlink, the old lines stay
ResetTouchOnly(file) == [exists |-> TRUE, lines |-> file.lines]

\* main, lines 382-385: unlink(missing_ok) then touch(exist_ok)
ResetStateFile(file) == EmptyFile

\* faulty variant of ExitCode: a single recorded failure is let through
ExitCodeLenient(failures) == IF Len(failures) <= 1 THEN 0 ELSE 1

\* main, line 484
ExitCode(failures) == IF failures = <<>> THEN 0 ELSE 1

\* faulty variant of LoopContinues: one attempt more than the budget allows
LoopContinuesOnceMore(pending, att, retries) == pending /= <<>> /\ att <= retries + 1

\* main, line 397: the while condition of the per-item retry loop
LoopContinues(pending, att, retries) == pending /= <<>> /\ att <= retries

\* main, line 431 and lines 448-449: the per-worker loop goes on
LoopContinuesW(buckets, att, retries) ==
  /\ att <= retries
  /\ (att = 0 \/ \E w \in DOMAIN buckets : buckets[w] /= <<>>)

ZeroCount(js) == [p \in Range(js) |-> 0]

\* main, lines 334-393, for a CSV and arguments taken from the given sets
StartRunWith(csvs, argsets, runs) ==
  /\ pc = "idle"
  /\ runNo < runs
  /\ \E csv \in csvs, a \in argsets :
       LET loaded == load_jobs_from_csv(csv)
           oks == read_list(okFile)
           failed_set == read_list(failedFile)
           early == NoJobs(loaded) \/ NothingToResume(a, failed_set)
           js == IF early THEN <<>> ELSE SelectJobs(a, loaded, oks, failed_set)
       IN  /\ runNo' = runNo + 1
           /\ args' = a
           /\ all_jobs' = loaded
           /\ ok_set' = oks
           /\ okAtStart' = okFile
           /\ failedAtStart' = failedFile
           /\ okFile' = IF CleanRun(a, loaded) THEN ResetStateFile(okFile) ELSE okFile
           /\ failedFile' = IF CleanRun(a, loaded) THEN ResetStateFile(failedFile)
                            ELSE failedFile
           /\ jobs' = js
           /\ dispatching' = ~early
           /\ pc' = IF early THEN "done"
                    ELSE IF a.single_csv_per_worker
                      THEN (IF LoopContinuesW(<<>>, 0, a.retries) THEN "loop" ELSE "summary")
                    ELSE (IF LoopContinues(js, 0, a.retries) THEN "loop" ELSE "summary")
           /\ exitStatus' = IF NoJobs(loaded) THEN 2 ELSE 0
           /\ to_run' = IF a.single_csv_per_worker THEN <<>> ELSE js
           /\ remaining_buckets' = IF a.single_csv_per_worker /\ ~early
                                     THEN chunk_round_robin(js, a.max_workers) ELSE <<>>
           /\ invoked' = ZeroCount(js)
  /\ attempt' = 0
  /\ futures' = <<>>
  /\ current_failures' = <<>>
  /\ failures_total' = <<>>
  /\ new_buckets' = <<>>
  /\ workers' = <<>>
  /\ completed' = {}
  /\ UNCHANGED <<single, titles, tmp_dir, lastFile, lastRun>>

StartRun == StartRunWith(CsvInputs, ArgSets, MaxRuns)

\* ------------------------------------------------ main(): per-item strategy
Running == {i \in DOMAIN futures : futures[i] = "running"}

\* main, lines 398-403: a new attempt submits every pending project to the pool
BeginAttempt ==
  /\ pc = "loop"
  /\ ~args.single_csv_per_worker
  /\ attempt' = attempt + 1
  /\ current_failures' = <<>>
  /\ futures' = [i \in 1..Len(to_run) |-> "queued"]
  /\ pc' = "batch"
  /\ UNCHANGED <<single, titles, tmp_dir, files, history, runConst, perWorker, to_run,
                 failures_total, exitStatus>>

\* ProcessPoolExecutor: the oldest queued task starts when a process is free;
\* process_one_project calls run_litterbox (lines 281-287)
TaskStart(i) ==
  /\ pc = "batch"
  /\ ~args.single_csv_per_worker
  /\ futures[i] = "queued"
  /\ \A j \in 1..(i - 1) : futures[j] /= "queued"
  /\ Cardinality(Running) < args.max_workers
  /\ futures' = [futures EXCEPT ![i] = "running"]
  /\ invoked' = [invoked EXCEPT ![to_run[i]] = @ + 1]
  /\ tmp_dir' = WriteListFile(tmp_dir, to_run[i])
  /\ UNCHANGED <<single, titles, files, runConst, perWorker, pc, to_run, attempt,
                 current_failures, failures_total, exitStatus, completed>>

\* faulty variant of TaskFinish: the worker process records the success in
\* ok_projects.txt itself
TaskFinishRecords(i) ==
  /\ pc = "batch"
  /\ ~args.single_csv_per_worker
  /\ futures[i] = "running"
  /\ \E ok \in BOOLEAN :
       /\ futures' = [futures EXCEPT ![i] = IF ok THEN "ok" ELSE "failed"]
       /\ lastFile' = IF ok THEN write_last_processed(to_run[i]) ELSE lastFile
       /\ lastRun' = IF ok THEN runNo ELSE lastRun
       /\ okFile' = IF ok THEN append_ok(okFile, to_run[i]) ELSE okFile
       /\ completed' = completed \cup {<<to_run[i], ok>>}
  /\ tmp_dir' = UnlinkListFile(tmp_dir, to_run[i])
  /\ UNCHANGED <<single, titles, failedFile, runConst, perWorker, pc, to_run, attempt,
                 current_failures, failures_total, exitStatus, invoked>>

\* run_litterbox returns ok or not; process_one_project (lines 288-293) writes
\* last_project_processed.txt on success, in the worker process
TaskFinish(i) ==
  /\ pc = "batch"
  /\ ~args.single_csv_per_worker
  /\ futures[i] = "running"
  /\ \E ok \in BOOLEAN :
       /\ futures' = [futures EXCEPT ![i] = IF ok THEN "ok" ELSE "failed"]
       /\ lastFile' = IF ok THEN write_last_processed(to_run[i]) ELSE lastFile
       /\ lastRun' = IF ok THEN runNo ELSE lastRun
       /\ completed' = completed \cup {<<to_run[i], ok>>}
  /\ tmp_dir' = UnlinkListFile(tmp_dir, to_run[i])
  /\ UNCHANGED <<single, titles, okFile, failedFile, runConst, perWorker, pc, to_run,
                 attempt, current_failures, failures_total, exitStatus, invoked>>

\* main, lines 404-411: as_completed hands a finished future to the scheduler
HandleResult(i) ==
  /\ pc = "batch"
  /\ ~args.single_csv_per_worker
  /\ futures[i] \in {"ok", "failed"}
  /\ okFile' = IF futures[i] = "ok" THEN append_ok(okFile, to_run[i]) ELSE okFile
  /\ current_failures' = IF futures[i] = "ok" THEN current_failures
                         ELSE Append(current_failures, to_run[i])
  /\ futures' = [futures EXCEPT ![i] = "handled"]
  /\ UNCHANGED <<single, titles, tmp_dir, failedFile, lastFile, lastRun, history, runConst,
                 perWorker, pc, to_run, attempt, failures_total, exitStatus>>

\* faulty variant of EndBatch: the batch is closed as soon as nothing is queued
\* and every returned result is handled, without waiting for the running tasks
EndBatchEarly ==
  /\ pc = "batch"
  /\ ~args.single_csv_per_worker
  /\ \A i \in DOMAIN futures : futures[i] \in {"running", "handled"}
  /\ failedFile' = AppendAll(failedFile, current_failures)
  /\ failures_total' = failures_total \o current_failures
  /\ to_run' = current_failures
  /\ futures' = <<>>
  /\ pc' = IF LoopContinues(current_failures, attempt, args.retries)
             THEN "loop" ELSE "summary"
  /\ UNCHANGED <<single, titles, tmp_dir, okFile, lastFile, lastRun, history, runConst,
                 perWorker, attempt, current_failures, exitStatus>>

\* main, lines 413-420: after the batch, record the failures and retry only them
EndBatch ==
  /\ pc = "batch"
  /\ ~args.single_csv_per_worker
  /\ \A i \in DOMAIN futures : futures[i] = "handled"
  /\ failedFile' = AppendAll(failedFile, current_failures)
  /\ failures_total' = failures_total \o current_failures
  /\ to_run' = current_failures
  /\ futures' = <<>>
  /\ pc' = IF LoopContinues(current_failures, attempt, args.retries)
             THEN "loop" ELSE "summary"
  /\ UNCHANGED <<single, titles, tmp_dir, okFile, lastFile, lastRun, history, runConst,
                 perWorker, attempt, current_failures, exitStatus>>

\* --------------------------------------------- main(): per-worker strategy
NewWorker == [st |-> "idle", pos |-> 0, oks |-> <<>>, fails |-> <<>>]

\* main, lines 432-437: one worker_loop call per bucket, pool as large as the buckets
BeginAttemptW ==
  /\ pc = "loop"
  /\ args.single_csv_per_worker
  /\ new_buckets' = [w \in DOMAIN remaining_buckets |-> <<>>]
  /\ workers' = [w \in DOMAIN remaining_buckets |-> NewWorker]
  /\ pc' = "batch"
  /\ UNCHANGED <<single, titles, tmp_dir, files, history, runConst, perItem,
                 remaining_buckets, attempt, failures_total, exitStatus>>

\* worker_loop, lines 311-316: the next project of the shard goes to run_litterbox
WorkerExec(w) ==
  /\ pc = "batch"
  /\ args.single_csv_per_worker
  /\ workers[w].st = "idle"
  /\ workers[w].pos < Len(remaining_buckets[w])
  /\ workers' = [workers EXCEPT ![w].st = "exec"]
  /\ invoked' = [invoked EXCEPT ![remaining_buckets[w][workers[w].pos + 1]] = @ + 1]
  /\ tmp_dir' = WriteListFile(tmp_dir, remaining_buckets[w][workers[w].pos + 1])
  /\ UNCHANGED <<single, titles, files, runConst, perItem, remaining_buckets, new_buckets,
                 pc, attempt, failures_total, exitStatus, completed>>

\* worker_loop, lines 317-330: the outcome is kept in the worker's own lists
WorkerReturn(w) ==
  /\ pc = "batch"
  /\ args.single_csv_per_worker
  /\ workers[w].st = "exec"
  /\ LET p == remaining_buckets[w][workers[w].pos + 1]
     IN  \E ok \in BOOLEAN :
           /\ workers' = [workers EXCEPT
                 ![w] = [st |-> "idle", pos |-> @.pos + 1,
                         oks |-> IF ok THEN Append(@.oks, p) ELSE @.oks,
                         fails |-> IF ok THEN @.fails ELSE Append(@.fails, p)]]
           /\ lastFile' = IF ok THEN write_last_processed(p) ELSE lastFile
           /\ lastRun' = IF ok THEN runNo ELSE lastRun
           /\ completed' = completed \cup {<<p, ok>>}
           /\ tmp_dir' = UnlinkListFile(tmp_dir, p)
  /\ UNCHANGED <<single, titles, okFile, failedFile, runConst, perItem, remaining_buckets,
                 new_buckets, pc, attempt, failures_total, exitStatus, invoked>>

\* worker_loop returned (line 331); main, lines 438-445, records its two lists
WorkerHandle(w) ==
  /\ pc = "batch"
  /\ args.single_csv_per_worker
  /\ workers[w].st = "idle"
  /\ workers[w].pos = Len(remaining_buckets[w])
  /\ okFile' = AppendAll(okFile, workers[w].oks)
  /\ failedFile' = AppendAll(failedFile, workers[w].fails)
  /\ failures_total' = failures_total \o workers[w].fails
  /\ new_buckets' = [new_buckets EXCEPT ![w] = workers[w].fails]
  /\ workers' = [workers EXCEPT ![w].st = "handled"]
  /\ UNCHANGED <<single, titles, tmp_dir, lastFile, lastRun, history, runConst, perItem,
                 remaining_buckets, pc, attempt, exitStatus>>

\* faulty variant of EndBatchW: the shards that came back empty are dropped, so
\* the next attempt has fewer worker slots and the failures change their index
EndBatchWCompacts ==
  /\ pc = "batch"
  /\ args.single_csv_per_worker
  /\ \A w \in DOMAIN workers : workers[w].st = "handled"
  /\ attempt' = attempt + 1
  /\ remaining_buckets' = SelectSeq(new_buckets, LAMBDA b : b /= <<>>)
  /\ workers' = <<>>
  /\ pc' = IF LoopContinuesW(new_buckets, attempt + 1, args.retries)
             THEN "loop" ELSE "summary"
  /\ UNCHANGED <<single, titles, tmp_dir, files, history, runConst, perItem, new_buckets,
                 failures_total, exitStatus>>

\* main, lines 446-449
EndBatchW ==
  /\ pc = "batch"
  /\ args.single_csv_per_worker
  /\ \A w \in DOMAIN workers : workers[w].st = "handled"
  /\ attempt' = attempt + 1
  /\ remaining_buckets' = new_buckets
  /\ workers' = <<>>
  /\ pc' = IF LoopContinuesW(new_buckets, attempt + 1, args.retries)
             THEN "loop" ELSE "summary"
  /\ UNCHANGED <<single, titles, tmp_dir, files, history, runConst, perItem, new_buckets,
                 failures_total, exitStatus>>

\* ------------------------------------------------------- main(): the end
\* main, lines 456-484: the summary is printed and the exit status returned
Finish ==
  /\ pc = "summary"
  /\ exitStatus' = ExitCode(failures_total)
  /\ pc' = "done"
  /\ UNCHANGED <<single, titles, tmp_dir, files, history, runConst, perItem, perWorker,
                 attempt, failures_total>>

\* KeyboardInterrupt while main() is in the scheduling loop: the process ends
\* without returning, whatever the workers were doing is abandoned; the signal
\* reaches the worker processes too, where the finally clause of run_litterbox
\* (lines 228-234) removes the temporary files
Interrupt ==
  /\ pc \in {"loop", "batch"}
  /\ pc' = "interrupted"
  /\ tmp_dir' = {}
  /\ UNCHANGED <<single, titles, files, history, runConst, perItem, perWorker, attempt,
                 failures_total, exitStatus>>

\* sys.exit(main()) or the interrupt ends the process: only the files remain
ProcessExit ==
  /\ pc \in {"done", "interrupted"}
  /\ pc' = "idle"
  /\ args' = NoArgs
  /\ all_jobs' = <<>>
  /\ ok_set' = {}
  /\ jobs' = <<>>
  /\ to_run' = <<>>
  /\ attempt' = 0
  /\ futures' = <<>>
  /\ current_failures' = <<>>
  /\ failures_total' = <<>>
  /\ remaining_buckets' = <<>>
  /\ new_buckets' = <<>>
  /\ workers' = <<>>
  /\ exitStatus' = 0
  /\ invoked' = <<>>
  /\ completed' = {}
  /\ okAtStart' = NoFile
  /\ failedAtStart' = NoFile
  /\ dispatching' = FALSE
  /\ UNCHANGED <<single, titles, tmp_dir, files, runNo>>

\* everything main() and its workers do after job selection when nobody
\* interrupts the run
Schedule ==
  \/ ProcessExit
  \/ BeginAttempt
  \/ \E i \in DOMAIN futures : TaskStart(i)
  \/ \E i \in DOMAIN futures : TaskFinish(i)
  \/ \E i \in DOMAIN futures : HandleResult(i)
  \/ EndBatch
  \/ BeginAttemptW
  \/ \E w \in DOMAIN workers : WorkerExec(w)
  \/ \E w \in DOMAIN workers : WorkerReturn(w)
  \/ \E w \in DOMAIN workers : WorkerHandle(w)
  \/ EndBatchW
  \/ Finish

\* everything main() and its workers do after job selection
Dispatch ==
  \/ Schedule
  \/ Interrupt

Next ==
  \/ StartRun
  \/ Dispatch

Spec == Init /\ [][Next]_vars

\* --------------------------------------- one run that nobody interrupts
\* one invocation of main() over files that do not exist yet
StartRunOnce == StartRunWith(CsvInputs, ArgSets, 1)

NextLive ==
  \/ StartRunOnce
  \/ Schedule

\* the scheduler process and the pool keep running: submit() and as_completed
\* (lines 398-404, 433-438) take their next step whenever there is one, and
\* run_litterbox returns, at the latest when its timeout kills LitterBox
\* (lines 215-227)
SpecLive == Init /\ [][NextLive]_vars /\ WF_vars(Schedule)

\* -------------------------------------------- a clean run over duplicates
\* the CSV a, b, a, blank without header
DuplicatesCsv == <<<<A>>, <<B>>, <<A>>, <<Blank>>>>

\* a clean run with --max-workers 2 --retries 0, in either strategy
DuplicatesArgs ==
  {a \in ArgSets : /\ a.retries = 0 /\ a.max_workers = 2
                   /\ ~a.resume_failed /\ ~a.auto_resume /\ ~a.skip_failed}

StartRunDuplicates == StartRunWith({DuplicatesCsv}, DuplicatesArgs, 1)

NextDuplicates ==
  \/ StartRunDuplicates
  \/ Dispatch

SpecDuplicates == Init /\ [][NextDuplicates]_vars

\* ------------------------------------- projects whose names end alike
\* the projects x_a and y_a: derive_token_from_project keeps what follows the
\* last underscore
XA == <<"x", "_", "a">>
YA == <<"y", "_", "a">>

\* CSVs without header, at most MaxRows rows, no project twice
TokenCsvs ==
  {csv \in SeqsUpTo({<<XA>>, <<YA>>, <<B>>}, MaxRows) :
     \A i, j \in 1..Len(csv) : i /= j => csv[i] /= csv[j]}

\* clean runs
TokenArgs == {a \in ArgSets : ~a.resume_failed /\ ~a.auto_resume /\ ~a.skip_failed}

StartRunTokens == StartRunWith(TokenCsvs, TokenArgs, 1)

NextTokens ==
  \/ StartRunTokens
  \/ Dispatch

SpecTokens == Init /\ [][NextTokens]_vars

\* ---------------------------------- runs over a padded, quoted project cell
\* the CSV line x, "a " style: a cell whose quotes csv.reader leaves in place
\* and whose text is padded inside them; alone or followed by the row b
PaddedCsvs == {<< <<QuotedPadA>> >>, << <<QuotedPadA>>, <<B>> >>}

StartRunPadded == StartRunWith(PaddedCsvs, ArgSets, MaxRuns)

NextPadded ==
  \/ StartRunPadded
  \/ Dispatch

SpecPadded == Init /\ [][NextPadded]_vars

\* ------------------------------------------- chunk_round_robin on its own
\* every list of at most MaxItems projects and every k from -1 to MaxK
PartitionCalls ==
  {[fn |-> "chunk_round_robin", items |-> it, k |-> k] :
     it \in SeqsUpTo({A, B}, MaxItems), k \in (-1)..MaxK}

InitPartition ==
  /\ DriverInit
  /\ NoTitles
  /\ call \in PartitionCalls
  /\ ret = <<>>
  /\ output_dir = <<>>

CallChunk ==
  /\ call.fn = "chunk_round_robin"
  /\ ret = <<>>
  /\ ret' = <<chunk_round_robin(call.items, call.k)>>
  /\ UNCHANGED <<driver, titles, call, output_dir>>

NextPartition == CallChunk

SpecPartition == InitPartition /\ [][NextPartition]_vars

\* ------------------------------------------ load_jobs_from_csv on its own
\* the cells tried: a, b, a blank, a padded a, a with literal quotes, and the
\* column names Project and id
PadA == <<SP, "a", SP>>
QuotedA == <<QT, "a", QT>>
ProjectName == <<"P", "r", "o", "j", "e", "c", "t">>
IdName == <<"i", "d">>
Cells == {A, B, Blank, PadA, QuotedA, ProjectName, IdName}

\* rows of no, one or two cells
LoadRowSet == {<<>>} \cup {<<c>> : c \in Cells} \cup {<<c, d>> : c \in Cells, d \in Cells}

InitLoad ==
  /\ DriverInit
  /\ NoTitles
  /\ call \in {[fn |-> "load_jobs_from_csv", rows |-> rs] :
                 rs \in SeqsUpTo(LoadRowSet, MaxLoadRows)}
  /\ ret = <<>>
  /\ output_dir = <<>>

\* the call returns the list of projects or raises
CallLoad ==
  /\ call.fn = "load_jobs_from_csv"
  /\ ret = <<>>
  /\ ret' = <<IF LoadRaises(call.rows)
                THEN [raised |-> "IndexError", jobs |-> <<>>]
                ELSE [raised |-> "none", jobs |-> load_jobs_from_csv(call.rows)]>>
  /\ UNCHANGED <<driver, titles, call, output_dir>>

NextLoad == CallLoad

SpecLoad == InitLoad /\ [][NextLoad]_vars

\* ----------------------------------------------------------- consolidation
\* A file of the output directory is a byte string, written here as a sequence
\* whose elements are the line terminator NL or a token standing for the text
\* of one CSV line; a directory entry has no bytes.
NL == "\n"

RegularFile(bytes) == [kind |-> "file", data |-> bytes]
SubDirectory == [kind |-> "dir", data |-> <<>>]

\* iterating a file opened "rb": the first line, terminator included, and what
\* follows it
RECURSIVE FirstLine(_)
FirstLine(bytes) ==
  IF bytes = <<>> THEN <<>>
  ELSE IF Head(bytes) = NL THEN <<NL>>
  ELSE <<Head(bytes)>> \o FirstLine(Tail(bytes))

AfterFirstLine(bytes) == SubSeq(bytes, Len(FirstLine(bytes)) + 1, Len(bytes))

RECURSIVE SplitLines(_)
SplitLines(bytes) ==
  IF bytes = <<>> THEN <<>>
  ELSE <<FirstLine(bytes)>> \o SplitLines(AfterFirstLine(bytes))

\* file names
LitterResults == <<"l", "i", "t", "t", "e", "r", "_", "r", "e", "s", "u", "l", "t", "s", "_">>
WorkerStem == <<"w", "o", "r", "k", "e", "r", "_">>
FileName(stem) == LitterResults \o stem \o DotCsv

\* main, lines 425 and 454: the two patterns, each the text before and after its *
PerItemPattern == [pre |-> LitterResults, suf |-> DotCsv]
PerWorkerPattern == [pre |-> LitterResults \o WorkerStem, suf |-> DotCsv]
DestName == FileName(<<"a", "l", "l">>)

\* fnmatch of a name against a pattern with one *
GlobMatch(name, pat) ==
  /\ Len(name) >= Len(pat.pre) + Len(pat.suf)
  /\ SubSeq(name, 1, Len(pat.pre)) = pat.pre
  /\ SubSeq(name, Len(name) - Len(pat.suf) + 1, Len(name)) = pat.suf

\* faulty variant of UnlinkDest: the old consolidated file is left in place
KeepDest(dir, dest) == dir

\* consolidate_csvs, lines 258-259: dest.unlink() when it exists
UnlinkDest(dir, dest) == [n \in DOMAIN dir \ {dest} |-> dir[n]]

\* consolidate_csvs, lines 262-275: the bytes appended to dest for the sorted
\* files, given whether a header was already written
RECURSIVE CopyShards(_, _, _)
CopyShards(fs, dir, header_written) ==
  IF fs = <<>> THEN <<>>
  ELSE LET f == dir[Head(fs)]
       IN  IF f.kind /= "file" THEN CopyShards(Tail(fs), dir, header_written)
           ELSE (IF header_written THEN <<>> ELSE FirstLine(f.data))
                \o AfterFirstLine(f.data)
                \o CopyShards(Tail(fs), dir, header_written \/ f.data /= <<>>)

\* consolidate_csvs: the directory after the call; dest is opened "ab" after the
\* unlink and after the glob was listed
consolidate_csvs(dir, pattern, dest) ==
  LET cleared == UnlinkDest(dir, dest)
      fs == Sorted({n \in DOMAIN cleared : GlobMatch(n, pattern)})
      old == IF dest \in DOMAIN cleared THEN cleared[dest].data ELSE <<>>
      bytes == old \o CopyShards(fs, cleared, FALSE)
  IN  [n \in DOMAIN cleared \cup {dest} |->
         IF n = dest THEN RegularFile(bytes) ELSE cleared[n]]

\* the shard contents tried: zero length, a header alone, a header and a row,
\* a last row cut short (no terminator, as a killed LitterBox leaves it), and
\* another header
ShardBytes ==
  {<<>>, <<"h", NL>>, <<"h", NL, "r", NL>>, <<"h", NL, "u">>, <<"g", NL, "s", NL>>}

ShardNames == {FileName(A), FileName(B), FileName(WorkerStem \o <<"0", "0">>), DestName}

\* the output directories tried: any of the names, each a regular file or a
\* directory; the destination name is never a directory
OutputDirs ==
  LET entries == {RegularFile(b) : b \in ShardBytes} \cup {SubDirectory}
  IN  {d \in UNION {[S -> entries] : S \in SUBSET ShardNames} :
         DestName \in DOMAIN d => d[DestName].kind = "file"}

InitConsolidate ==
  /\ DriverInit
  /\ NoTitles
  /\ call \in {[fn |-> "consolidate_csvs", pattern |-> pat, dest_name |-> DestName] :
                 pat \in {PerItemPattern, PerWorkerPattern}}
  /\ ret = <<>>
  /\ output_dir \in OutputDirs

\* main, lines 422-425 and 451-454: one call; ret keeps the bytes of the
\* consolidated file after each call
CallConsolidate ==
  /\ call.fn = "consolidate_csvs"
  /\ Len(ret) < MaxConsolidations
  /\ output_dir' = consolidate_csvs(output_dir, call.pattern, call.dest_name)
  /\ ret' = Append(ret, output_dir'[call.dest_name].data)
  /\ UNCHANGED <<driver, titles, call>>

NextConsolidate == CallConsolidate

SpecConsolidate == InitConsolidate /\ [][NextConsolidate]_vars

\* ----------------------------------------------------------- title fetcher
\* get_multi_filenames.py. A CSV file is absent or a list of rows; the first
\* row of a file pandas reads is its header.
FILENAME == <<"f", "i", "l", "e", "n", "a", "m", "e">>
PROJECT_TITLE == <<"t", "i", "t", "l", "e">>
HeaderRow == <<FILENAME, PROJECT_TITLE>>

\* what _fetch_title_with_retries returns for an ID: a title or an error text
TITLE == <<"t">>
ERROR == <<"E", "R", "R", "O", "R">>

\* the cells of the input column filename: the IDs 1 and 2, a padded 1, a blank
ID1 == <<"1">>
ID2 == <<"2">>
IdCells == {ID1, ID2, <<SP, "1">>, Blank}
InputColumns == SeqsUpTo(IdCells, MaxIds)

\* Series.unique(): first occurrences, in order
RECURSIVE Unique(_)
Unique(ids) ==
  IF ids = <<>> THEN <<>>
  ELSE LET init == Unique(SubSeq(ids, 1, Len(ids) - 1))
           last == ids[Len(ids)]
       IN  IF last \in Range(init) THEN init ELSE Append(init, last)

\* main, lines 122-131: strip, drop the blanks, unique
RECURSIVE StripDropBlank(_)
StripDropBlank(cells) ==
  IF cells = <<>> THEN <<>>
  ELSE (IF Strip(Head(cells)) = <<>> THEN <<>> ELSE <<Strip(Head(cells))>>)
       \o StripDropBlank(Tail(cells))

ReadAllIds(cells) == Unique(StripDropBlank(cells))

\* _safe_read_csv on the output file: the data rows of the frame
DataFrameRows(file) == IF file.lines = <<>> THEN <<>> ELSE Tail(file.lines)

\* df_out.empty: no file content, or a header without data rows
DataFrameEmpty(file) == DataFrameRows(file) = <<>>

\* main, lines 138-141: the IDs of the column filename of the output file
Processed(file) ==
  IF ~file.exists \/ DataFrameEmpty(file) \/ FILENAME \notin Range(Head(file.lines))
    THEN {}
    ELSE {Strip(DataFrameRows(file)[i][1]) : i \in 1..Len(DataFrameRows(file))}

\* faulty variant of Remaining: the output file is not consulted
RemainingAll(ids, processed) == ids

\* main, line 143
RECURSIVE Remaining(_, _)
Remaining(ids, processed) ==
  IF ids = <<>> THEN <<>>
  ELSE (IF Head(ids) \in processed THEN <<>> ELSE <<Head(ids)>>)
       \o Remaining(Tail(ids), processed)

\* main, line 153
HeaderNeeded(file) == ~file.exists \/ DataFrameEmpty(file)

\* main, lines 113-158 and 183: read the input, skip what the output file has,
\* open the output for appending, write the header if needed, submit the rest
TitlesStart ==
  /\ titles_pc = "idle"
  /\ titles_run < MaxTitleRuns
  /\ \E cells \in InputColumns :
       LET ids == ReadAllIds(cells)
           todo == Remaining(ids, Processed(OUTPUT_CSV))
       IN  /\ all_ids' = ids
           /\ remaining' = todo
           /\ fetch_futures' = [i \in 1..Len(todo) |-> [st |-> "pending", title |-> <<>>]]
           /\ titles_pc' = IF todo = <<>> THEN "done" ELSE "pool"
           /\ OUTPUT_CSV' = IF todo = <<>> THEN OUTPUT_CSV
                            ELSE IF HeaderNeeded(OUTPUT_CSV)
                              THEN AppendLine(OUTPUT_CSV, HeaderRow)
                            ELSE OUTPUT_CSV
  /\ titles_run' = titles_run + 1
  /\ UNCHANGED <<driver, single, request, fetched>>

\* a pool process runs _fetch_title_with_retries for a submitted ID
Fetch(i) ==
  /\ titles_pc \in {"pool", "interrupted"}
  /\ fetch_futures[i].st = "pending"
  /\ \E title \in {TITLE, ERROR} :
       fetch_futures' = [fetch_futures EXCEPT ![i] = [st |-> "fetched", title |-> title]]
  /\ fetched' = fetched \cup {<<titles_run, remaining[i]>>}
  /\ UNCHANGED <<driver, single, request, OUTPUT_CSV, titles_pc, titles_run, all_ids,
                 remaining>>

\* main, lines 185-198: as_completed hands over a result, its row is written
WriteRow(i) ==
  /\ titles_pc = "pool"
  /\ fetch_futures[i].st = "fetched"
  /\ OUTPUT_CSV' = AppendLine(OUTPUT_CSV, <<remaining[i], fetch_futures[i].title>>)
  /\ fetch_futures' = [fetch_futures EXCEPT ![i].st = "written"]
  /\ UNCHANGED <<driver, single, request, titles_pc, titles_run, all_ids, remaining, fetched>>

\* main, lines 208-215: every result was written
TitlesEnd ==
  /\ titles_pc = "pool"
  /\ \A i \in DOMAIN fetch_futures : fetch_futures[i].st = "written"
  /\ titles_pc' = "done"
  /\ UNCHANGED <<driver, single, request, OUTPUT_CSV, titles_run, all_ids, remaining,
                 fetch_futures, fetched>>

\* main, lines 202-207: KeyboardInterrupt or another exception ends the loop;
\* leaving the with block waits for the pool, which may still run fetches
TitlesInterrupt ==
  /\ titles_pc = "pool"
  /\ titles_pc' = "interrupted"
  /\ UNCHANGED <<driver, single, request, OUTPUT_CSV, titles_run, all_ids, remaining,
                 fetch_futures, fetched>>

\* the process ends: only the output file remains
TitlesExit ==
  /\ titles_pc \in {"done", "interrupted"}
  /\ titles_pc' = "idle"
  /\ all_ids' = <<>>
  /\ remaining' = <<>>
  /\ fetch_futures' = <<>>
  /\ UNCHANGED <<driver, single, request, OUTPUT_CSV, titles_run, fetched>>

InitTitles == DriverInit /\ NoCall /\ NoTitles

NextTitles ==
  \/ TitlesStart
  \/ \E i \in DOMAIN fetch_futures : Fetch(i)
  \/ \E i \in DOMAIN fetch_futures : WriteRow(i)
  \/ TitlesEnd
  \/ TitlesInterrupt
  \/ TitlesExit

SpecTitles == InitTitles /\ [][NextTitles]_vars

\* ------------------------------------------ _fetch_title_with_retries alone
MAX_RETRIES == 5

NOT_FOUND == <<"N", "O", "T", "_", "F", "O", "U", "N", "D", ":", SP, "4", "0", "4">>

\* f"ERROR: {type(exc).__name__}: {exc}": the characters of the prefix, then one
\* token standing for the text of the exception
ErrorText(name) == ERROR \o <<":", SP, name>>

\* what an iteration can meet. status 0: requests.get raised (timeout, no
\* connection). Retry-After is absent, a number of seconds or an HTTP date. The
\* body of a 200 is a JSON object with or without a title, JSON that is no
\* object, or no JSON at all.
NoBody == [json |-> "none", title |-> <<>>]
Bodies ==
  {[json |-> "object", title |-> t] : t \in {TITLE, <<SP, "t", SP>>, <<>>}}
    \cup {[json |-> "array", title |-> <<>>], [json |-> "malformed", title |-> <<>>]}
Responses ==
  {[status |-> st, retry_after |-> "absent", body |-> NoBody] : st \in {0, 404, 500}}
    \cup {[status |-> 429, retry_after |-> ra, body |-> NoBody] :
            ra \in {"absent", "seconds", "date"}}
    \cup {[status |-> 200, retry_after |-> "absent", body |-> b] : b \in Bodies}

\* the three ways an iteration of the loop goes on
Return(text) == [kind |-> "return", value |-> text]
Continue == [kind |-> "continue", value |-> <<>>]
Raise(exc) == [kind |-> "raise", value |-> exc]

\* lines 48-65, the try block. jsonError is the class r.json() raises on bad
\* JSON: a RequestException subclass in requests >= 2.27, a plain ValueError
\* before
TryBlock(r, jsonError) ==
  IF r.status = 0 THEN Raise("ConnectionError")
  ELSE IF r.status = 404 THEN Return(NOT_FOUND)
  ELSE IF r.status = 429
    THEN IF r.retry_after = "date" THEN Raise("ValueError") ELSE Continue
  ELSE IF r.status >= 400 THEN Raise("HTTPError")
  ELSE IF r.body.json = "malformed" THEN Raise(jsonError)
  ELSE IF r.body.json = "array" THEN Raise("AttributeError")
  ELSE Return(Strip(r.body.title))

RequestExceptions == {"ConnectionError", "HTTPError", "JSONDecodeError"}

\* faulty variant of ExceptClauses: without the last clause, except Exception
ExceptClausesNoCatchAll(att, out) ==
  IF out.kind /= "raise" THEN out
  ELSE IF out.value \in RequestExceptions
    THEN IF att < MAX_RETRIES THEN Continue ELSE Return(ErrorText(out.value))
  ELSE IF out.value = "ValueError" THEN Return(ErrorText("ValueError"))
  ELSE out

\* lines 66-78, the except clauses in their order
ExceptClauses(att, out) ==
  IF out.kind /= "raise" THEN out
  ELSE IF out.value \in RequestExceptions
    THEN IF att < MAX_RETRIES THEN Continue ELSE Return(ErrorText(out.value))
  ELSE IF out.value = "ValueError" THEN Return(ErrorText("ValueError"))
  ELSE Return(ErrorText(out.value))

\* lines 48-81: one iteration of the for loop; after the last one the function
\* returns "ERROR: Unknown". ret gets the pair returned or the exception raised.
Iteration ==
  /\ call.fn = "_fetch_title_with_retries"
  /\ ret = <<>>
  /\ fetch_attempt < MAX_RETRIES
  /\ \E r \in Responses :
       LET att == fetch_attempt + 1
           out == ExceptClauses(att, TryBlock(r, call.json_error))
       IN  /\ fetch_attempt' = att
           /\ responses' = Append(responses, r)
           /\ ret' = IF out.kind = "return"
                       THEN <<[raised |-> "none", value |-> <<call.pid, out.value>>]>>
                     ELSE IF out.kind = "raise"
                       THEN <<[raised |-> out.value, value |-> <<>>]>>
                     ELSE IF att = MAX_RETRIES
                       THEN <<[raised |-> "none",
                               value |-> <<call.pid, ErrorText("Unknown")>>]>>
                     ELSE <<>>
  /\ UNCHANGED <<driver, call, output_dir, OUTPUT_CSV, titles_pc, titles_run, all_ids,
                 remaining, fetch_futures, fetched>>

InitFetch ==
  /\ DriverInit
  /\ NoTitles
  /\ call \in {[fn |-> "_fetch_title_with_retries", pid |-> id, json_error |-> e] :
                 id \in {ID1, ID2}, e \in {"JSONDecodeError", "ValueError"}}
  /\ ret = <<>>
  /\ output_dir = <<>>

NextFetch == Iteration

SpecFetch == InitFetch /\ [][NextFetch]_vars


\* ================================================================= claims
Lines(file) == Range(file.lines)
Succeeded == {c[1] : c \in {d \in completed : d[2]}}
ResumeMode == args.resume_failed \/ args.auto_resume
InRun == pc /= "idle"

\* C1: in both strategies the executor is called for an identity at most
\* retries + 1 times in a run, whatever the input list (duplicates included).
C1_AtMostBudgetPlusOne ==
  \A p \in DOMAIN invoked : invoked[p] <= args.retries + 1

\* C2: once a call for an identity has returned success in a run, the executor is
\* never called for that identity again in the run, and when the run ends the
\* identity is in the done store.
C2_SuccessIsFinal ==
  [][/\ \A p \in Succeeded : p \in DOMAIN invoked' => invoked'[p] = invoked[p]
     /\ pc' = "done" => \A p \in Succeeded' : p \in Lines(okFile')]_vars

\* C3: in a run started in a resume mode, no identity that is in the done store
\* when the run starts is given to the executor.
C3_DoneNotDispatched ==
  (InRun /\ ResumeMode) =>
     \A p \in DOMAIN invoked : p \in Lines(okAtStart) => invoked[p] = 0

\* C4: when a run is interrupted, every outcome the scheduler has taken from a
\* finished task (per-item), and every outcome a worker holds while it is already
\* running a later project of its shard (per-worker), is in the done store
\* (success) or in the failed store (failure).
C4_WriteThrough ==
  pc = "interrupted" =>
     /\ \A i \in DOMAIN futures :
           futures[i] = "handled" =>
              IF to_run[i] \in Range(current_failures)
                THEN to_run[i] \in Lines(failedFile)
                ELSE to_run[i] \in Lines(okFile)
     /\ \A w \in DOMAIN workers :
           workers[w].st = "exec" =>
              /\ \A p \in Range(workers[w].oks) : p \in Lines(okFile)
              /\ \A p \in Range(workers[w].fails) : p \in Lines(failedFile)

\* C5: the done set and the failed set, read back from the two files, are
\* disjoint in every state.
C5_Disjoint == read_list(okFile) \cap read_list(failedFile) = {}

\* the items that failed in the last attempt made, i.e. never succeeded
StillFailed ==
  IF args.single_csv_per_worker
    THEN \E w \in DOMAIN remaining_buckets : remaining_buckets[w] /= <<>>
    ELSE to_run /= <<>>

\* C6: for a run with input items, the exit status is 1 if and only if some
\* dispatched item has still not succeeded after its retries, and 0 otherwise.
C6_ExitOneIffStillFailed ==
  (pc = "done" /\ all_jobs /= <<>>) =>
     /\ exitStatus \in {0, 1}
     /\ exitStatus = 1 <=> (dispatching /\ StillFailed)

\* C7 (as claimed): when the scheduler completes, the exit status is 0 exactly
\* when the failed store is empty at the end of the run.
C7_ExitFromFailedStore ==
  (pc = "done" /\ dispatching) => (exitStatus = 0 <=> read_list(failedFile) = {})

\* C7 (amended): when the scheduler completes, the exit status is 0 exactly when
\* no call of this run returned a failure, which is when the run appended nothing
\* to the failed store, and 1 otherwise; in a clean run this is the failed store
\* being empty at the end.
C7_ExitFromRunFailures ==
  (pc = "done" /\ dispatching) =>
     LET base == IF CleanRun(args, all_jobs) THEN <<>> ELSE failedAtStart.lines
     IN  /\ exitStatus \in {0, 1}
         /\ exitStatus = 0 <=> (\A c \in completed : c[2])
         /\ exitStatus = 0 <=> failedFile.lines = base

\* a resume run that ends with status 0 over a non-empty failed store
C7_Witness ==
  /\ pc = "done" /\ dispatching /\ ResumeMode
  /\ exitStatus = 0
  /\ read_list(failedFile) /= {}
  /\ completed /= {}

\* C8: when the CSV yields no project, the run ends with status 2, the executor
\* is never called and neither state file is touched, in every mode.
C8_EmptyInputExitsTwo ==
  (InRun /\ all_jobs = <<>>) =>
     /\ pc = "done"
     /\ exitStatus = 2
     /\ okFile = okAtStart
     /\ failedFile = failedAtStart
     /\ DOMAIN invoked = {}
     /\ completed = {}

\* a clean run over a blank CSV that leaves the recorded state of an earlier run
C8_Witness ==
  /\ pc = "done" /\ all_jobs = <<>> /\ ~ResumeMode
  /\ exitStatus = 2
  /\ okFile.lines /= <<>>
  /\ failedFile.lines /= <<>>

\* the state right after job selection, before the first attempt
AfterSelection == pc = "loop" /\ attempt = 0

\* C9: after the clean-run reset both state files exist and are empty, whatever
\* they held before.
C9_CleanResetEmpties ==
  (AfterSelection /\ CleanRun(args, all_jobs)) =>
     /\ okFile.exists /\ okFile.lines = <<>>
     /\ failedFile.exists /\ failedFile.lines = <<>>

\* a clean run that starts over files an earlier run filled
C9_Witness ==
  /\ AfterSelection /\ CleanRun(args, all_jobs)
  /\ okAtStart.lines /= <<>>
  /\ failedAtStart.lines /= <<>>
  /\ okFile = EmptyFile /\ failedFile = EmptyFile

\* C10: after a clean run has started, lastProcessed is absent or holds an
\* identity written by the current run.
C10_LastNotStale ==
  (InRun /\ CleanRun(args, all_jobs)) => (lastFile.exists => lastRun = runNo)

\* C11: in both strategies, when a run has reached its end every dispatched
\* identity is in the done store, or the executor was called for it exactly
\* retries + 1 times, every call failed, and it is in the failed store.
C11_TerminalAtEnd ==
  (pc = "done" /\ dispatching) =>
     \A p \in Range(jobs) :
        \/ p \in Lines(okFile)
        \/ /\ invoked[p] = args.retries + 1
           /\ \A c \in completed : c[1] = p => ~c[2]
           /\ p \in Lines(failedFile)

\* C12: chunk_round_robin(items, k) returns exactly m = max(1, k) buckets, the
\* item at 0-based position i is in bucket i mod m at index i div m (so each
\* bucket keeps the input order and every position is in exactly one bucket),
\* all items are in a single bucket when k <= 0, and 5 items with k = 2 give the
\* positions 0, 2, 4 and 1, 3.
C12_RoundRobin ==
  (call.fn = "chunk_round_robin" /\ ret /= <<>>) =>
     LET items == call.items
         n == Len(items)
         m == IF call.k >= 1 THEN call.k ELSE 1
         buckets == ret[1]
     IN  /\ DOMAIN buckets = 1..m
         /\ \A w \in 1..m :
               /\ Len(buckets[w]) = Cardinality({i \in 0..(n - 1) : i % m = w - 1})
               /\ \A j \in 1..Len(buckets[w]) :
                     buckets[w][j] = items[(j - 1) * m + (w - 1) + 1]
         /\ call.k <= 0 => buckets = <<items>>
         /\ (n = 5 /\ call.k = 2) =>
               buckets = << <<items[1], items[3], items[5]>>, <<items[2], items[4]>> >>

\* the example of the claim: five items dealt to two buckets
C12_Witness ==
  /\ call.fn = "chunk_round_robin"
  /\ call.items = <<A, B, A, B, B>>
  /\ call.k = 2
  /\ ret = << << <<A, A, B>>, <<B, B>> >> >>

\* the regular files matching the pattern of the call, the destination apart
Shards ==
  {n \in DOMAIN output_dir \ {call.dest_name} :
     GlobMatch(n, call.pattern) /\ output_dir[n].kind = "file"}

\* the lines after the first of the given files, in the order of the list
RECURSIVE DataRows(_)
DataRows(fs) ==
  IF fs = <<>> THEN <<>>
  ELSE Tail(SplitLines(output_dir[Head(fs)].data)) \o DataRows(Tail(fs))

\* C13: after consolidate_csvs the destination holds exactly one header line,
\* the first line of the first non-empty shard in ascending order of name,
\* followed by the lines after the first of every matching shard, in that order
\* of shards and in their order in the shard; zero-length shards and entries
\* that are not regular files contribute nothing.
C13_HeaderThenRows ==
  (call.fn = "consolidate_csvs" /\ ret /= <<>>) =>
     LET nonempty == {n \in Shards : output_dir[n].data /= <<>>}
         out == SplitLines(output_dir[call.dest_name].data)
     IN  IF nonempty = {} THEN out = <<>>
         ELSE LET first == CHOOSE n \in nonempty :
                             \A m \in nonempty \ {n} : StrLess(n, m)
              IN  out = <<Head(SplitLines(output_dir[first].data))>>
                          \o DataRows(Sorted(nonempty))

\* C14: consolidate_csvs is a full rebuild: called again over unchanged shards it
\* leaves the same bytes in the destination as the call before, also when the
\* destination existed before the call and when its name matches the pattern.
C14_Idempotent ==
  call.fn = "consolidate_csvs" =>
     \A i, j \in DOMAIN ret : ret[i] = ret[j]

\* a second per-item consolidation, the destination left by the first one
\* matching the pattern, over two shards with rows
C14_Witness ==
  /\ call.fn = "consolidate_csvs"
  /\ Len(ret) = 2
  /\ GlobMatch(call.dest_name, call.pattern)
  /\ Cardinality({n \in Shards : Len(SplitLines(output_dir[n].data)) >= 2}) >= 2
  /\ Len(SplitLines(ret[2])) >= 3

\* the column names of a first row that contain the project marker, case ignored
MarkerColumns(first_row) ==
  {i \in 1..Len(first_row) : Contains(Lower(first_row[i]), PROJECT)}

\* the trimmed non-blank cells of one column, in the order of the rows
RECURSIVE Identities(_, _)
Identities(rows, col) ==
  IF rows = <<>> THEN <<>>
  ELSE (IF Len(Head(rows)) >= col /\ Strip(Head(rows)[col]) /= <<>>
          THEN <<Strip(Head(rows)[col])>> ELSE <<>>)
       \o Identities(Tail(rows), col)

\* C15: load_jobs_from_csv returns, for every input, the non-blank identities
\* in their order, duplicates kept and blank cells dropped; the first row is left
\* out only when one of its cells contains the project marker (case ignored),
\* and then the first such column is read; otherwise column 0 of every row, the
\* first included, is read.
C15_LoadsIdentities ==
  (call.fn = "load_jobs_from_csv" /\ ret /= <<>>) =>
     LET rows == call.rows
         header == rows /= <<>> /\ MarkerColumns(Head(rows)) /= {}
         col == IF header
                  THEN CHOOSE i \in MarkerColumns(Head(rows)) :
                         \A j \in MarkerColumns(Head(rows)) : i <= j
                  ELSE 1
     IN  /\ ret[1].raised = "none"
         /\ ret[1].jobs = Identities(IF header THEN Tail(rows) ELSE rows, col)

\* how many lines of a state file hold the project p
Occurrences(file, p) == Cardinality({i \in 1..Len(file.lines) : file.lines[i] = p})

\* C16: in the clean run over a, b, a, blank with two workers and no retry, where
\* every execution of a succeeds and every execution of b fails, the run ends
\* with the done store {a}, a recorded once, the failed store {b} and status 1.
C16_RecordedOnce ==
  (/\ pc = "done" /\ all_jobs = <<A, B, A>>
   /\ completed = {<<A, TRUE>>, <<B, FALSE>>}) =>
     /\ read_list(okFile) = {A}
     /\ Occurrences(okFile, A) = 1
     /\ read_list(failedFile) = {B}
     /\ exitStatus = 1

\* C17: in the per-item strategy, two tasks of a batch that run at the same time
\* for distinct projects write to distinct output files.
C17_OwnOutputFile ==
  (pc = "batch" /\ ~args.single_csv_per_worker) =>
     \A i, j \in Running :
        to_run[i] /= to_run[j] => OutputCsv(to_run[i]) /= OutputCsv(to_run[j])

\* the projects being executed: by the running tasks (per-item) or by the
\* workers inside run_litterbox (per-worker)
Executing ==
  IF pc /= "batch" THEN {}
  ELSE IF args.single_csv_per_worker
    THEN {remaining_buckets[w][workers[w].pos + 1] :
            w \in {v \in DOMAIN workers : workers[v].st = "exec"}}
    ELSE {to_run[i] : i \in Running}

\* C18: the temporary file project_<token>.txt of an execution exists as long as
\* the execution lasts (no other task deletes it), and when no task is executing
\* no temporary file exists.
C18_TempFileOwned ==
  /\ \A p \in Executing : derive_token_from_project(p) \in tmp_dir
  /\ Executing = {} => tmp_dir = {}

\* a step taken inside a worker process: a task or a worker_loop enters or
\* leaves run_litterbox
WorkerStep ==
  \/ \E i \in DOMAIN futures \cap DOMAIN futures' :
        /\ futures[i] \in {"queued", "running"}
        /\ futures'[i] \in {"running", "ok", "failed"}
        /\ futures'[i] /= futures[i]
  \/ \E w \in DOMAIN workers \cap DOMAIN workers' :
        {workers[w].st, workers'[w].st} = {"idle", "exec"}

\* new is old with whole lines added at the end, each a project of the run
Appended(old, new) ==
  /\ Len(new.lines) >= Len(old.lines)
  /\ SubSeq(new.lines, 1, Len(old.lines)) = old.lines
  /\ \A k \in (Len(old.lines) + 1)..Len(new.lines) : new.lines[k] \in Range(jobs)

\* C19: while a batch is running, no step of a worker process changes
\* ok_projects.txt or failed_projects.txt, and every change of the two files adds
\* whole project lines at their end: only the scheduler appends to them.
C19_SchedulerAppends ==
  [][pc = "batch" =>
       /\ WorkerStep => UNCHANGED <<okFile, failedFile>>
       /\ Appended(okFile, okFile')
       /\ Appended(failedFile, failedFile')]_vars

\* the scheduler has appended a success of this batch while another task of the
\* batch is still running
C19_Witness ==
  /\ pc = "batch"
  /\ \E i, j \in DOMAIN futures : futures[i] = "handled" /\ futures[j] = "running"
  /\ Len(okFile.lines) > Len(okAtStart.lines)
  /\ ~CleanRun(args, all_jobs)

\* the IDs of the data rows of the output file
RowIds(file) == {DataFrameRows(file)[i][1] : i \in 1..Len(DataFrameRows(file))}

\* the number of data rows of the output file for an ID
RowsFor(file, id) ==
  Cardinality({i \in 1..Len(DataFrameRows(file)) : DataFrameRows(file)[i][1] = id})

\* C20: over any sequence of runs of the title fetcher, interrupted or not, an ID
\* that has a row in the output file is not fetched, the output file never holds
\* two data rows for one ID, and when a run ends without interruption every ID
\* of its input has exactly one row.
C20_FetchedOnce ==
  [][/\ \A f \in fetched' \ fetched : f[2] \notin RowIds(OUTPUT_CSV)
     /\ \A id \in RowIds(OUTPUT_CSV') : RowsFor(OUTPUT_CSV', id) = 1
     /\ titles_pc' = "done" =>
          \A k \in 1..Len(all_ids') : RowsFor(OUTPUT_CSV', all_ids'[k]) = 1]_vars

\* a run that ends normally after an interrupted run left the row of one of the
\* two IDs of its input: only the other ID was fetched in it
C20_Witness ==
  /\ titles_pc = "done"
  /\ titles_run >= 2
  /\ Len(all_ids) = 2
  /\ Len(remaining) = 1
  /\ fetch_futures[1].st = "written"
  /\ {f[2] : f \in {g \in fetched : g[1] = titles_run}} = {remaining[1]}

\* C21: in the per-worker strategy the items are partitioned once, before the
\* first attempt; the number of worker slots never changes during the run, the
\* shards stay as they are within an attempt, and the shard of worker w in the
\* next attempt is exactly the list of the projects that failed in worker w's
\* shard of this attempt, so no project moves to another worker index.
C21_ShardsStay ==
  [][(args.single_csv_per_worker /\ dispatching /\ pc \in {"loop", "batch"}) =>
       /\ (pc = "loop" /\ attempt = 0) =>
             remaining_buckets = chunk_round_robin(jobs, args.max_workers)
       /\ pc' \in {"loop", "batch", "summary"} =>
             /\ Len(remaining_buckets') = Len(remaining_buckets)
             /\ IF attempt' = attempt
                  THEN remaining_buckets' = remaining_buckets
                  ELSE \A w \in DOMAIN remaining_buckets :
                         /\ remaining_buckets'[w] = workers[w].fails
                         /\ Len(workers[w].oks) + Len(workers[w].fails)
                              = Len(remaining_buckets[w])
                         /\ \A p \in Range(remaining_buckets'[w]) :
                               /\ p \in Range(remaining_buckets[w])
                               /\ <<p, FALSE>> \in completed]_vars

\* a retry over two worker slots of which the first has nothing left to do
C21_Witness ==
  /\ pc = "batch" /\ args.single_csv_per_worker
  /\ attempt = 1
  /\ Len(remaining_buckets) = 2
  /\ remaining_buckets[1] = <<>>
  /\ remaining_buckets[2] /= <<>>
  /\ workers[2].st = "exec"

\* the projects waiting for the next attempt
Pending ==
  IF args.single_csv_per_worker
    THEN UNION {Range(remaining_buckets[w]) : w \in DOMAIN remaining_buckets}
    ELSE Range(to_run)

\* the projects whose executor call starts in this step
Started == {p \in DOMAIN invoked \cap DOMAIN invoked' : invoked'[p] > invoked[p]}

\* C22: an attempt starts only when no execution of the attempt before is still
\* in progress, and every project of a retry has returned a failure before, so
\* attempt n + 1 of a project starts after its attempt n has completed; an
\* execution that starts is one of the pending projects of the current attempt;
\* and in the per-worker strategy a worker starts the project at the next
\* position of its shard only when all the earlier ones have returned, one at a
\* time and in shard order.
C22_OneAfterAnother ==
  [][/\ (pc = "loop" /\ pc' = "batch") =>
          /\ tmp_dir = {}
          /\ attempt >= 1 =>
                \A p \in Pending : invoked[p] >= 1 /\ <<p, FALSE>> \in completed
     /\ (pc = "batch" /\ pc' = "batch") =>
          /\ Started \subseteq Pending
          /\ Cardinality(Started) <= 1
          /\ \A p \in Started : invoked'[p] = invoked[p] + 1
     /\ (pc = "batch" /\ pc' = "batch" /\ args.single_csv_per_worker) =>
          /\ Started /= {} =>
                \E w \in DOMAIN workers :
                   workers[w].st = "idle" /\ workers'[w].st = "exec"
          /\ \A w \in DOMAIN workers :
             LET returned == Len(workers[w].oks) + Len(workers[w].fails)
                 returnedAfter == Len(workers'[w].oks) + Len(workers'[w].fails)
             IN  /\ workers[w].st /= "exec" /\ workers'[w].st = "exec" =>
                       /\ returned < Len(remaining_buckets[w])
                       /\ Started = {remaining_buckets[w][returned + 1]}
                 /\ returnedAfter \in {returned, returned + 1}
                 /\ returnedAfter = returned + 1 =>
                       /\ workers[w].st = "exec"
                       /\ workers'[w].oks \o workers'[w].fails
                            \in {Append(workers[w].oks, remaining_buckets[w][returned + 1])
                                   \o workers[w].fails,
                                 workers[w].oks
                                   \o Append(workers[w].fails,
                                             remaining_buckets[w][returned + 1])}]_vars

\* a retry in which a worker executes the second project of its shard for the
\* second time, after the first project has returned
C22_Witness ==
  /\ pc = "batch" /\ args.single_csv_per_worker
  /\ attempt = 1
  /\ \E w \in DOMAIN workers :
        /\ workers[w].st = "exec"
        /\ workers[w].pos = 1
        /\ Len(remaining_buckets[w]) = 2
        /\ invoked[remaining_buckets[w][2]] = 2

\* the batches started so far in the run
BatchesBegun ==
  IF args.single_csv_per_worker /\ pc = "batch" THEN attempt + 1 ELSE attempt

StartsWith(text, prefix) ==
  Len(text) >= Len(prefix) /\ SubSeq(text, 1, Len(prefix)) = prefix

\* the call met only responses of the given kinds so far, and at least one
OnlyMet(statuses) ==
  responses /= <<>> /\ \A i \in DOMAIN responses : responses[i].status \in statuses

\* C24: whatever the responses, _fetch_title_with_retries makes at most
\* MAX_RETRIES requests and, once they are used up or earlier, returns the pair
\* of its ID and a string, never raising; a 404 is the last request and gives
\* NOT_FOUND; when every request fails with a request error the call goes on to
\* attempt MAX_RETRIES and then returns a text starting with ERROR; when every
\* response is a 429 the call returns a text starting with ERROR.
C24_AlwaysReturns ==
  /\ Len(responses) = fetch_attempt
  /\ fetch_attempt <= MAX_RETRIES
  /\ Len(ret) <= 1
  /\ fetch_attempt = MAX_RETRIES => ret /= <<>>
  /\ ret /= <<>> =>
        /\ ret[1].raised = "none"
        /\ ret[1].value[1] = call.pid
        /\ ret[1].value[2] \in Seq(STRING)
  /\ \A i \in DOMAIN responses :
        responses[i].status = 404 =>
           /\ i = Len(responses)
           /\ ret /= <<>>
           /\ ret[1].value[2] = NOT_FOUND
  /\ OnlyMet({0, 500}) =>
        IF fetch_attempt < MAX_RETRIES THEN ret = <<>>
        ELSE StartsWith(ret[1].value[2], ERROR)
  /\ (OnlyMet({429}) /\ ret /= <<>>) => StartsWith(ret[1].value[2], ERROR)

\* a 429 on each of the MAX_RETRIES attempts, none with an unreadable Retry-After
C24_Witness ==
  /\ OnlyMet({429})
  /\ fetch_attempt = MAX_RETRIES
  /\ \A i \in DOMAIN responses : responses[i].retry_after /= "date"
  /\ ret /= <<>>
  /\ StartsWith(ret[1].value[2], ERROR)

\* the identities a store holds: the lines append_ok or append_failed wrote
Recorded(file) == {p \in Lines(file) : Strip(p) /= <<>>}

\* C25: in a run over a CSV with projects, the identities dispatched are: every
\* loaded one in a clean run; the input identities not recorded in the done store
\* with auto-resume, less the ones recorded in the failed store with skip-failed;
\* the identities both recorded in the failed store and in the input with legacy
\* resume-failed, which, when nothing is recorded as failed, ends with status 0
\* without a call and without a change to the state files. Every dispatched
\* identity is executed when the run completes.
C25_DispatchedByMode ==
  (InRun /\ all_jobs /= <<>>) =>
     LET input == Range(all_jobs)
         done == Recorded(okAtStart)
         failed == Recorded(failedAtStart)
         dispatched == DOMAIN invoked
     IN  /\ IF args.resume_failed
              THEN IF failed = {}
                     THEN /\ pc = "done"
                          /\ exitStatus = 0
                          /\ dispatched = {}
                          /\ completed = {}
                          /\ okFile = okAtStart
                          /\ failedFile = failedAtStart
                     ELSE dispatched = failed \cap input
            ELSE IF args.auto_resume
              THEN dispatched = (input \ done) \ (IF args.skip_failed THEN failed ELSE {})
            ELSE dispatched = input
         /\ dispatched = Range(jobs)
         /\ (pc = "done" /\ dispatching) => \A p \in dispatched : invoked[p] >= 1

====
